---- MODULE Spec2Model ----
(***************************************************************************)
(* Model of AmqpClient::Detail::ChannelImpl (src/src/ChannelImpl.cpp):     *)
(* channel-id allocation and reuse, the per-channel frame queues with the  *)
(* frame demultiplexing loop, the close handshakes and the consumer        *)
(* registry.                                                               *)
(*                                                                         *)
(* One logical actor drives the object, so at most one call is in progress.*)
(* Every operation is one action, except GetNextFrameOnChannel, whose      *)
(* blocking read loop is one action per loop iteration (pc = "pulling"     *)
(* while the call is inside GetNextFrameFromBrokerOnChannel).              *)
(*                                                                         *)
(* The broker and the socket are the environment: BrokerSend puts a frame  *)
(* on the wire, LinkBreak makes every later send and read fail.            *)
(***************************************************************************)
EXTENDS Integers, Sequences, FiniteSets, TLC

VARIABLES
  channel_max,            \* amqp_get_channel_max(m_connection), fixed at login
  m_next_channel_id,      \* last assigned id (amqp_channel_t, 16 bit in the code)
  m_open_channels,        \* map: channel id -> queue of buffered frames
  m_free_channels,        \* std::queue of idle channel ids
  m_consumer_channel_map, \* map: consumer tag -> channel id
  wire,                   \* frames sent by the broker, not yet read from the socket
  produced,               \* number of frames the broker has sent so far
  link,                   \* "up" | "down": state of the socket
  pc,                     \* "idle" | "pulling"
  call,                   \* the GetNextFrameOnChannel call in progress
  sent,                   \* methods sent to the broker by the last operation
  result,                 \* outcome of the last operation
  borrowed,               \* history: how many callers hold each channel id
  delivered               \* history: seq numbers of frames handed to callers as data

vars == <<channel_max, m_next_channel_id, m_open_channels, m_free_channels,
          m_consumer_channel_map, wire, produced, link, pc, call, sent, result,
          borrowed, delivered>>

----------------------------------------------------------------------------
(* Bounds *)

\* Largest channel id. Stands for std::numeric_limits<uint16_t>::max(): ids
\* are amqp_channel_t and wrap modulo MaxChannelId + 1.
MaxChannelId == 4

\* Number of frames the broker sends in one behaviour of SpecFrames.
MaxFrames == 2

\* Number of frames the broker sends in one behaviour of Spec.
MaxFramesAll == 1

ChannelIds == 0..MaxChannelId

\* Values of the broker-advertised channel maximum that are explored
\* (0 means "no limit").
ChannelMaxValues == {0, 3}

ConsumerTags == {"tag1", "tag2"}

\* The consumer tag used where the registry runs beside everything else.
OneTag == {"tag1"}

\* A value no channel id takes.
NoChannel == 0 - 1

----------------------------------------------------------------------------
(* Frames *)

MethodIds  == {"CHANNEL_CLOSE", "CONNECTION_CLOSE", "OTHER"}

MkFrame(c, t, m, s) == [channel |-> c, frame_type |-> t, method_id |-> m, seq |-> s]

NoFrame == MkFrame(NoChannel, "NONE", "NONE", -1)

\* What a protocol-conforming broker sends on channel c: channel 0 carries
\* connection-level methods only, channel.close is never sent on channel 0.
\* Content frames stand for every frame that is not a close method.
BrokerFrames(c, s) ==
  IF c = 0
    THEN {MkFrame(0, "METHOD", m, s) : m \in {"CONNECTION_CLOSE", "OTHER"}}
    ELSE {MkFrame(c, "METHOD", "CHANNEL_CLOSE", s), MkFrame(c, "BODY", "OTHER", s)}

\* What the caller's output frame variable may hold when it calls
\* GetNextFrameOnChannel: an uninitialised amqp_frame_t (any bit pattern,
\* seq 0 marks it as not coming from the wire).
\* The loop reads its channel, and its type and method id when the channel is
\* 0, so one value per channel and the connection.close method cover it.
UninitFrames ==
  {MkFrame(c, "METHOD", "OTHER", 0) : c \in ChannelIds}
    \cup {MkFrame(0, "METHOD", "CONNECTION_CLOSE", 0)}

IsChannelClose(f)    == f.frame_type = "METHOD" /\ f.method_id = "CHANNEL_CLOSE"
IsConnectionClose(f) == f.frame_type = "METHOD" /\ f.method_id = "CONNECTION_CLOSE"

Timeouts == {"zero", "finite", "forever"}

----------------------------------------------------------------------------
(* Results and helpers *)

\* op: the operation; arg, tag: its channel / consumer-tag argument;
\* kind: how it ended (a return kind or the exception thrown);
\* channel, frame: the value returned; timeout: the timeout argument of a
\* GetNextFrameOnChannel call that went to the socket; closed: the channel
\* FinishCloseChannel was run on, if it was.
Res(op, arg, tag, kind, c, f) ==
  [op |-> op, arg |-> arg, tag |-> tag, kind |-> kind, channel |-> c, frame |-> f,
   timeout |-> "none", closed |-> NoChannel]

Closing(res, channel) == [res EXCEPT !.closed = channel]

TimedOut(res, timeout) == [res EXCEPT !.timeout = timeout]

NoTag == "none"

NoCall == [channel |-> NoChannel, frame |-> NoFrame, timeout |-> "forever"]

Method(c, m) == [channel |-> c, method |-> m]

IsChannelOpen(channel) == channel \in DOMAIN m_open_channels

\* std::map::erase(key)
MapErase(map, key) == [k \in DOMAIN map \ {key} |-> map[k]]

\* std::map::insert(make_pair(key, value)): keeps an existing entry
MapInsert(map, key, value) ==
  IF key \in DOMAIN map THEN map
  ELSE [k \in DOMAIN map \cup {key} |-> IF k = key THEN value ELSE map[k]]

\* amqp_send_method: fails (negative return) once the socket is broken
SendOk == link = "up"

----------------------------------------------------------------------------
(* Close handshakes *)

\* ChannelImpl::FinishCloseChannel: the table entry is erased first, then the
\* close-ok is sent; CheckForError throws when the send fails.
FinishCloseChannel(table, out, channel) ==
  [open   |-> MapErase(table, channel),
   sent   |-> IF SendOk THEN Append(out, Method(channel, "channel.close-ok")) ELSE out,
   thrown |-> IF SendOk THEN "none" ELSE "TransportError"]

\* ChannelImpl::FinishCloseConnection: the return value of amqp_send_method
\* is dropped.
FinishCloseConnection(out) ==
  IF SendOk THEN Append(out, Method(0, "connection.close-ok")) ELSE out

----------------------------------------------------------------------------
(* Channel allocation *)

\* The two checks at the head of GetNextChannelId; channel_count is
\* m_open_channels.size(), which counts channel 0.
TooManyChannels(max_channels, channel_count) ==
  IF max_channels = 0
    THEN MaxChannelId <= channel_count
    ELSE max_channels <= channel_count

\* Mutant: the id after the last one is taken without looking it up in the table.
ScanNextChannelId_NoLookup(last_id, table) == (last_id + 1) % (MaxChannelId + 1)

\* while (end != find(++m_next_channel_id)) {}: pre-increment with wrap-around,
\* until an id with no table entry is found.
RECURSIVE ScanNextChannelId(_, _)
ScanNextChannelId(last_id, table) ==
  LET next == (last_id + 1) % (MaxChannelId + 1)
  IN  IF next \in DOMAIN table THEN ScanNextChannelId(next, table) ELSE next

\* How the broker answers a synchronous method.
RpcOutcomes == {"reply", "channel_close", "connection_close"}

\* DoRpcOnChannel (a template of ChannelImpl.h): send the method, wait for the
\* expected reply on the channel; a channel.close or connection.close received
\* instead completes the close handshake and is raised as an error.
DoRpcOnChannel(table, out, channel, method, outcome) ==
  IF ~SendOk
    THEN [open |-> table, sent |-> out, thrown |-> "TransportError"]
  ELSE IF outcome = "reply"
    THEN [open |-> table, sent |-> Append(out, Method(channel, method)), thrown |-> "none"]
  ELSE IF outcome = "channel_close"
    THEN LET r == FinishCloseChannel(table, Append(out, Method(channel, method)), channel)
         IN  [r EXCEPT !.thrown = IF @ = "none" THEN "ChannelClosedByPeer" ELSE @]
  ELSE [open   |-> table,
        sent   |-> FinishCloseConnection(Append(out, Method(channel, method))),
        thrown |-> "ConnectionClosedByPeer"]

\* Mutant: the front of the pool is returned but not popped.
GetChannelFromPool_NoPop ==
  /\ pc = "idle"
  /\ m_free_channels # <<>>
  /\ LET ret == Head(m_free_channels)
     IN  /\ result' = Res("GetChannel", NoChannel, NoTag, "reused", ret, NoFrame)
         /\ borrowed' = [borrowed EXCEPT ![ret] = @ + 1]
  /\ sent' = <<>>
  /\ UNCHANGED <<channel_max, m_next_channel_id, m_open_channels, m_free_channels,
                 m_consumer_channel_map, wire, produced, link, pc, call, delivered>>

\* Mutant: the pool is used as a stack, the most recently released id first.
GetChannelFromPool_Back ==
  /\ pc = "idle"
  /\ m_free_channels # <<>>
  /\ LET ret == m_free_channels[Len(m_free_channels)]
     IN  /\ m_free_channels' = SubSeq(m_free_channels, 1, Len(m_free_channels) - 1)
         /\ result' = Res("GetChannel", NoChannel, NoTag, "reused", ret, NoFrame)
         /\ borrowed' = [borrowed EXCEPT ![ret] = @ + 1]
  /\ sent' = <<>>
  /\ UNCHANGED <<channel_max, m_next_channel_id, m_open_channels,
                 m_consumer_channel_map, wire, produced, link, pc, call, delivered>>

\* GetChannel, free pool not empty: pop the front of the pool.
GetChannelFromPool ==
  /\ pc = "idle"
  /\ m_free_channels # <<>>
  /\ LET ret == Head(m_free_channels)
     IN  /\ m_free_channels' = Tail(m_free_channels)
         /\ result' = Res("GetChannel", NoChannel, NoTag, "reused", ret, NoFrame)
         /\ borrowed' = [borrowed EXCEPT ![ret] = @ + 1]
  /\ sent' = <<>>
  /\ UNCHANGED <<channel_max, m_next_channel_id, m_open_channels,
                 m_consumer_channel_map, wire, produced, link, pc, call, delivered>>

\* GetChannel, free pool empty: CreateNewChannel = GetNextChannelId followed by
\* the channel.open and confirm.select RPCs.
CreateNewChannel ==
  /\ pc = "idle"
  /\ m_free_channels = <<>>
  /\ IF TooManyChannels(channel_max, Cardinality(DOMAIN m_open_channels))
       THEN /\ result' = Res("GetChannel", NoChannel, NoTag, "TooManyChannels", NoChannel, NoFrame)
            /\ sent' = <<>>
            /\ UNCHANGED <<m_next_channel_id, m_open_channels, borrowed>>
       ELSE \E o1 \in RpcOutcomes :
            \E o2 \in (IF o1 = "reply" THEN RpcOutcomes ELSE {"reply"}) :
              LET id == ScanNextChannelId(m_next_channel_id, m_open_channels)
                  t0 == MapInsert(m_open_channels, id, <<>>)
                  r1 == DoRpcOnChannel(t0, <<>>, id, "channel.open", o1)
                  r2 == IF r1.thrown = "none"
                          THEN DoRpcOnChannel(r1.open, r1.sent, id, "confirm.select", o2)
                          ELSE r1
              IN  /\ m_next_channel_id' = id
                  /\ m_open_channels' = r2.open
                  /\ sent' = r2.sent
                  /\ IF r2.thrown = "none"
                       THEN /\ result' = Res("GetChannel", NoChannel, NoTag, "created", id, NoFrame)
                            /\ borrowed' = [borrowed EXCEPT ![id] = @ + 1]
                       ELSE /\ result' = LET res == Res("GetChannel", NoChannel, NoTag,
                                                       r2.thrown, NoChannel, NoFrame)
                                           IN  IF id \in DOMAIN r2.open THEN res
                                               ELSE Closing(res, id)
                            /\ UNCHANGED borrowed
  /\ UNCHANGED <<channel_max, m_free_channels, m_consumer_channel_map, wire,
                 produced, link, pc, call, delivered>>

GetChannel == GetChannelFromPool \/ CreateNewChannel

\* Mutant: releasing a channel also drops its table entry.
ReturnChannel_Erases(channel) ==
  /\ pc = "idle"
  /\ borrowed[channel] > 0
  /\ IsChannelOpen(channel)
  /\ m_free_channels' = Append(m_free_channels, channel)
  /\ m_open_channels' = MapErase(m_open_channels, channel)
  /\ borrowed' = [borrowed EXCEPT ![channel] = @ - 1]
  /\ result' = Res("ReturnChannel", channel, NoTag, "ok", NoChannel, NoFrame)
  /\ sent' = <<>>
  /\ UNCHANGED <<channel_max, m_next_channel_id, m_consumer_channel_map, wire,
                 produced, link, pc, call, delivered>>

\* ReturnChannel(channel). Callers return only a channel they hold and that
\* has not been closed.
ReturnChannel(channel) ==
  /\ pc = "idle"
  /\ borrowed[channel] > 0
  /\ IsChannelOpen(channel)
  /\ m_free_channels' = Append(m_free_channels, channel)
  /\ borrowed' = [borrowed EXCEPT ![channel] = @ - 1]
  /\ result' = Res("ReturnChannel", channel, NoTag, "ok", NoChannel, NoFrame)
  /\ sent' = <<>>
  /\ UNCHANGED <<channel_max, m_next_channel_id, m_open_channels,
                 m_consumer_channel_map, wire, produced, link, pc, call, delivered>>

----------------------------------------------------------------------------
(* Consumer registry *)

AddConsumer(consumer_tag, channel) ==
  /\ pc = "idle"
  /\ borrowed[channel] > 0
  /\ m_consumer_channel_map' = MapInsert(m_consumer_channel_map, consumer_tag, channel)
  /\ result' = Res("AddConsumer", channel, consumer_tag, "ok", NoChannel, NoFrame)
  /\ sent' = <<>>
  /\ UNCHANGED <<channel_max, m_next_channel_id, m_open_channels, m_free_channels,
                 wire, produced, link, pc, call, borrowed, delivered>>

\* Mutant: the tag is looked up and returned but not erased.
RemoveConsumer_KeepsTag(consumer_tag) ==
  /\ pc = "idle"
  /\ IF consumer_tag \notin DOMAIN m_consumer_channel_map
       THEN result' = Res("RemoveConsumer", NoChannel, consumer_tag,
                          "ConsumerTagNotFound", NoChannel, NoFrame)
       ELSE result' = Res("RemoveConsumer", NoChannel, consumer_tag, "ok",
                          m_consumer_channel_map[consumer_tag], NoFrame)
  /\ sent' = <<>>
  /\ UNCHANGED <<channel_max, m_next_channel_id, m_open_channels, m_free_channels,
                 m_consumer_channel_map, wire, produced, link, pc, call, borrowed,
                 delivered>>

RemoveConsumer(consumer_tag) ==
  /\ pc = "idle"
  /\ IF consumer_tag \notin DOMAIN m_consumer_channel_map
       THEN /\ result' = Res("RemoveConsumer", NoChannel, consumer_tag,
                             "ConsumerTagNotFound", NoChannel, NoFrame)
            /\ UNCHANGED m_consumer_channel_map
       ELSE /\ result' = Res("RemoveConsumer", NoChannel, consumer_tag, "ok",
                             m_consumer_channel_map[consumer_tag], NoFrame)
            /\ m_consumer_channel_map' = MapErase(m_consumer_channel_map, consumer_tag)
  /\ sent' = <<>>
  /\ UNCHANGED <<channel_max, m_next_channel_id, m_open_channels, m_free_channels,
                 wire, produced, link, pc, call, borrowed, delivered>>

GetConsumerChannel(consumer_tag) ==
  /\ pc = "idle"
  /\ IF consumer_tag \notin DOMAIN m_consumer_channel_map
       THEN result' = Res("GetConsumerChannel", NoChannel, consumer_tag,
                          "ConsumerTagNotFound", NoChannel, NoFrame)
       ELSE result' = Res("GetConsumerChannel", NoChannel, consumer_tag, "ok",
                          m_consumer_channel_map[consumer_tag], NoFrame)
  /\ sent' = <<>>
  /\ UNCHANGED <<channel_max, m_next_channel_id, m_open_channels, m_free_channels,
                 m_consumer_channel_map, wire, produced, link, pc, call, borrowed,
                 delivered>>

----------------------------------------------------------------------------
(* Frame retrieval *)

\* The frame variable a caller passes by reference: uninitialised (as the
\* local of ReadContent before its first call) or still holding the frame the
\* previous call returned (as in ReadContent's loop).
CallerFrames ==
  UninitFrames \cup (IF result.frame # NoFrame THEN {result.frame} ELSE {})

\* The frame variable and the timeout are read only once the call enters
\* GetNextFrameFromBrokerOnChannel, that is on an open channel with an empty
\* queue; elsewhere one value stands for all.
CallInputs(channel) ==
  IF IsChannelOpen(channel) /\ m_open_channels[channel] = <<>>
    THEN CallerFrames \X Timeouts
    ELSE {<<MkFrame(0, "METHOD", "OTHER", 0), "forever">>}

\* frame_queue_t channel_queue = GetChannelQueueOrThrow(channel)->second;
\* ...; channel_queue.erase(it): channel_queue is a copy of the mapped queue,
\* the table keeps its queue as it was.
PopBuffered(table, channel) == table

\* The frame whose channel, type and method id the loop of
\* GetNextFrameFromBrokerOnChannel tests: the caller's `frame`, not
\* `received_frame`.
InspectedFrame(frame, received_frame) == frame

\* The deadline test after a frame that was not returned. With no timeout
\* there is none; with timeout 0 end_point is already reached; otherwise
\* either.
DeadlineOutcomes(timeout) ==
  IF timeout = "forever" THEN {FALSE}
  ELSE IF timeout = "zero" THEN {TRUE}
  ELSE BOOLEAN

\* Mutant: the queue is looked up with operator[], which creates a missing entry.
GetNextFrameOnChannel_Creates(channel, frame, timeout) ==
  /\ pc = "idle"
  /\ channel # 0
  /\ borrowed[channel] > 0 \/ ~IsChannelOpen(channel)
  /\ IF ~IsChannelOpen(channel)
       THEN \* m_open_channels[channel]
            /\ m_open_channels' = MapInsert(m_open_channels, channel, <<>>)
            /\ pc' = "pulling"
            /\ call' = [channel |-> channel, frame |-> frame, timeout |-> timeout]
            /\ result' = Res("GetNextFrameOnChannel", channel, NoTag,
                             "pending", NoChannel, NoFrame)
            /\ sent' = <<>>
            /\ UNCHANGED <<borrowed, delivered>>
       ELSE IF m_open_channels[channel] # <<>>
         THEN LET front == Head(m_open_channels[channel])
                  table == PopBuffered(m_open_channels, channel)
              IN  IF IsChannelClose(front)
                    THEN LET r == FinishCloseChannel(table, <<>>, channel)
                         IN  /\ m_open_channels' = r.open
                             /\ sent' = r.sent
                             /\ result' = Closing(Res("GetNextFrameOnChannel", channel,
                                                      NoTag,
                                                      IF r.thrown = "none"
                                                        THEN "ChannelClosedByPeer"
                                                        ELSE r.thrown,
                                                      NoChannel, NoFrame), channel)
                             /\ borrowed' = [borrowed EXCEPT ![channel] = 0]
                             /\ UNCHANGED <<pc, call, delivered>>
                    ELSE /\ m_open_channels' = table
                         /\ sent' = <<>>
                         /\ result' = Res("GetNextFrameOnChannel", channel, NoTag,
                                          "frame", NoChannel, front)
                         /\ delivered' = delivered \cup {front.seq}
                         /\ UNCHANGED <<pc, call, borrowed>>
         ELSE /\ pc' = "pulling"
              /\ call' = [channel |-> channel, frame |-> frame, timeout |-> timeout]
              /\ result' = Res("GetNextFrameOnChannel", channel, NoTag,
                               "pending", NoChannel, NoFrame)
              /\ sent' = <<>>
              /\ UNCHANGED <<m_open_channels, borrowed, delivered>>
  /\ UNCHANGED <<channel_max, m_next_channel_id, m_free_channels,
                 m_consumer_channel_map, wire, produced, link>>

\* GetNextFrameOnChannel(channel, frame, timeout), up to the point where it
\* returns, throws or enters GetNextFrameFromBrokerOnChannel.  It is called
\* on a channel the caller holds, or on an id that has no table entry.
GetNextFrameOnChannel(channel, frame, timeout) ==
  /\ pc = "idle"
  /\ channel # 0
  /\ borrowed[channel] > 0 \/ ~IsChannelOpen(channel)
  /\ IF ~IsChannelOpen(channel)
       THEN \* GetChannelQueueOrThrow
            /\ result' = Res("GetNextFrameOnChannel", channel, NoTag,
                             "ChannelNotFound", NoChannel, NoFrame)
            /\ sent' = <<>>
            /\ UNCHANGED <<m_open_channels, pc, call, borrowed, delivered>>
       ELSE IF m_open_channels[channel] # <<>>
         THEN LET front == Head(m_open_channels[channel])
                  table == PopBuffered(m_open_channels, channel)
              IN  IF IsChannelClose(front)
                    THEN LET r == FinishCloseChannel(table, <<>>, channel)
                         IN  /\ m_open_channels' = r.open
                             /\ sent' = r.sent
                             /\ result' = Closing(Res("GetNextFrameOnChannel", channel,
                                                      NoTag,
                                                      IF r.thrown = "none"
                                                        THEN "ChannelClosedByPeer"
                                                        ELSE r.thrown,
                                                      NoChannel, NoFrame), channel)
                             /\ borrowed' = [borrowed EXCEPT ![channel] = 0]
                             /\ UNCHANGED <<pc, call, delivered>>
                    ELSE /\ m_open_channels' = table
                         /\ sent' = <<>>
                         /\ result' = Res("GetNextFrameOnChannel", channel, NoTag,
                                          "frame", NoChannel, front)
                         /\ delivered' = delivered \cup {front.seq}
                         /\ UNCHANGED <<pc, call, borrowed>>
         ELSE /\ pc' = "pulling"
              /\ call' = [channel |-> channel, frame |-> frame, timeout |-> timeout]
              /\ result' = Res("GetNextFrameOnChannel", channel, NoTag,
                               "pending", NoChannel, NoFrame)
              /\ sent' = <<>>
              /\ UNCHANGED <<m_open_channels, borrowed, delivered>>
  /\ UNCHANGED <<channel_max, m_next_channel_id, m_free_channels,
                 m_consumer_channel_map, wire, produced, link>>

\* Mutant: a select() that times out is taken for a failed select().
PullTimeout_Throws ==
  /\ pc = "pulling"
  /\ call.timeout # "forever"
  /\ wire = <<>>
  /\ link = "up"
  /\ pc' = "idle"
  /\ call' = NoCall
  /\ result' = Res("GetNextFrameOnChannel", call.channel, NoTag, "TransportError",
                   NoChannel, NoFrame)
  /\ UNCHANGED <<channel_max, m_next_channel_id, m_open_channels, m_free_channels,
                 m_consumer_channel_map, wire, produced, link, sent, borrowed,
                 delivered>>

\* GetNextFrameFromBroker with a timeout: select() reports no data before the
\* timeout, the loop ends and the call returns false.
PullTimeout ==
  /\ pc = "pulling"
  /\ call.timeout # "forever"
  /\ wire = <<>>
  /\ link = "up"
  /\ pc' = "idle"
  /\ call' = NoCall
  /\ result' = TimedOut(Res("GetNextFrameOnChannel", call.channel, NoTag, "noframe",
                            NoChannel, NoFrame), call.timeout)
  /\ UNCHANGED <<channel_max, m_next_channel_id, m_open_channels, m_free_channels,
                 m_consumer_channel_map, wire, produced, link, sent, borrowed,
                 delivered>>

\* GetNextFrameFromBroker on a broken socket: select() or
\* amqp_simple_wait_frame fails and std::runtime_error is thrown.
PullError ==
  /\ pc = "pulling"
  /\ link = "down"
  /\ pc' = "idle"
  /\ call' = NoCall
  /\ result' = Res("GetNextFrameOnChannel", call.channel, NoTag, "TransportError",
                   NoChannel, NoFrame)
  /\ UNCHANGED <<channel_max, m_next_channel_id, m_open_channels, m_free_channels,
                 m_consumer_channel_map, wire, produced, link, sent, borrowed,
                 delivered>>

\* One iteration of the loop of GetNextFrameFromBrokerOnChannel in which
\* GetNextFrameFromBroker delivers a frame.
PullFrame ==
  /\ pc = "pulling"
  /\ wire # <<>>
  /\ wire' = Tail(wire)
  /\ LET received_frame == Head(wire)
         tested  == InspectedFrame(call.frame, received_frame)
         Return(kind, f) ==
           /\ pc' = "idle"
           /\ call' = NoCall
           /\ result' = TimedOut(Res("GetNextFrameOnChannel", call.channel, NoTag,
                                     kind, NoChannel, f), call.timeout)
         Continue ==
           \E expired \in DeadlineOutcomes(call.timeout) :
             IF expired
               THEN Return("noframe", NoFrame)
               ELSE UNCHANGED <<pc, call, result>>
     IN  IF tested.channel = call.channel
           THEN /\ Return("frame", received_frame)
                /\ delivered' = delivered \cup {received_frame.seq}
                /\ UNCHANGED <<m_open_channels, sent>>
         ELSE IF tested.channel = 0
           THEN IF IsConnectionClose(tested)
                  THEN /\ sent' = FinishCloseConnection(sent)
                       /\ Return("ConnectionClosedByPeer", NoFrame)
                       /\ UNCHANGED <<m_open_channels, delivered>>
                  ELSE /\ Continue
                       /\ UNCHANGED <<m_open_channels, sent, delivered>>
         ELSE IF ~IsChannelOpen(tested.channel)
           THEN /\ Return("ChannelNotFound", NoFrame)
                /\ UNCHANGED <<m_open_channels, sent, delivered>>
           ELSE /\ m_open_channels' =
                     [m_open_channels EXCEPT ![tested.channel] = Append(@, received_frame)]
                /\ Continue
                /\ UNCHANGED <<sent, delivered>>
  /\ UNCHANGED <<channel_max, m_next_channel_id, m_free_channels,
                 m_consumer_channel_map, produced, link, borrowed>>

\* CheckFrameForClose(frame, channel), called on the frame that
\* GetNextFrameOnChannel(channel) has just returned.
CheckFrameForClose ==
  /\ pc = "idle"
  /\ result.op = "GetNextFrameOnChannel"
  /\ result.kind = "frame"
  /\ LET frame   == result.frame
         channel == result.arg
     IN  IF IsChannelClose(frame)
           THEN LET r == FinishCloseChannel(m_open_channels, <<>>, channel)
                IN  /\ m_open_channels' = r.open
                    /\ sent' = r.sent
                    /\ result' = Closing(Res("CheckFrameForClose", channel, NoTag,
                                             IF r.thrown = "none"
                                               THEN "ChannelClosedByPeer"
                                               ELSE r.thrown,
                                             NoChannel, NoFrame), channel)
                    /\ borrowed' = [borrowed EXCEPT ![channel] = 0]
         ELSE IF IsConnectionClose(frame)
           THEN /\ sent' = FinishCloseConnection(<<>>)
                /\ result' = Res("CheckFrameForClose", channel, NoTag,
                                 "ConnectionClosedByPeer", NoChannel, NoFrame)
                /\ UNCHANGED <<m_open_channels, borrowed>>
           ELSE /\ sent' = <<>>
                /\ result' = Res("CheckFrameForClose", channel, NoTag, "ok",
                                 NoChannel, NoFrame)
                /\ UNCHANGED <<m_open_channels, borrowed>>
  /\ UNCHANGED <<channel_max, m_next_channel_id, m_free_channels,
                 m_consumer_channel_map, wire, produced, link, pc, call, delivered>>

ReplyTypes == {"AMQP_RESPONSE_NORMAL", "AMQP_RESPONSE_NONE",
               "AMQP_RESPONSE_LIBRARY_EXCEPTION", "AMQP_RESPONSE_SERVER_EXCEPTION"}

\* reply.reply.id is read for a server exception only.
ReplyIds(reply_type) ==
  IF reply_type = "AMQP_RESPONSE_SERVER_EXCEPTION" THEN MethodIds ELSE {"OTHER"}

\* Mutant: a channel.close reply is raised without running FinishCloseChannel.
CheckRpcReply_NoHandshake(channel, reply_type, reply_id) ==
  /\ pc = "idle"
  /\ channel # 0
  /\ borrowed[channel] > 0
  /\ sent' = IF reply_type = "AMQP_RESPONSE_SERVER_EXCEPTION"
                 /\ reply_id = "CONNECTION_CLOSE"
                THEN FinishCloseConnection(<<>>)
                ELSE <<>>
  /\ result' = Res("CheckRpcReply", channel, NoTag,
                   CASE reply_type = "AMQP_RESPONSE_NORMAL" -> "ok"
                     [] reply_type = "AMQP_RESPONSE_NONE" -> "LogicError"
                     [] reply_type = "AMQP_RESPONSE_LIBRARY_EXCEPTION"
                          -> "LibraryException"
                     [] OTHER -> "ServerException",
                   NoChannel, NoFrame)
  /\ UNCHANGED <<m_open_channels, borrowed>>
  /\ UNCHANGED <<channel_max, m_next_channel_id, m_free_channels,
                 m_consumer_channel_map, wire, produced, link, pc, call, delivered>>

\* CheckRpcReply(channel, reply, context) on a channel the caller holds.
CheckRpcReply(channel, reply_type, reply_id) ==
  /\ pc = "idle"
  /\ channel # 0
  /\ borrowed[channel] > 0
  /\ IF reply_type = "AMQP_RESPONSE_SERVER_EXCEPTION" /\ reply_id = "CHANNEL_CLOSE"
       THEN LET r == FinishCloseChannel(m_open_channels, <<>>, channel)
            IN  /\ m_open_channels' = r.open
                /\ sent' = r.sent
                /\ result' = Closing(Res("CheckRpcReply", channel, NoTag,
                                         IF r.thrown = "none" THEN "ServerException"
                                                              ELSE r.thrown,
                                         NoChannel, NoFrame), channel)
                /\ borrowed' = [borrowed EXCEPT ![channel] = 0]
       ELSE /\ sent' = IF reply_type = "AMQP_RESPONSE_SERVER_EXCEPTION"
                          /\ reply_id = "CONNECTION_CLOSE"
                         THEN FinishCloseConnection(<<>>)
                         ELSE <<>>
            /\ result' = Res("CheckRpcReply", channel, NoTag,
                             CASE reply_type = "AMQP_RESPONSE_NORMAL" -> "ok"
                               [] reply_type = "AMQP_RESPONSE_NONE" -> "LogicError"
                               [] reply_type = "AMQP_RESPONSE_LIBRARY_EXCEPTION"
                                    -> "LibraryException"
                               [] OTHER -> "ServerException",
                             NoChannel, NoFrame)
            /\ UNCHANGED <<m_open_channels, borrowed>>
  /\ UNCHANGED <<channel_max, m_next_channel_id, m_free_channels,
                 m_consumer_channel_map, wire, produced, link, pc, call, delivered>>

----------------------------------------------------------------------------
(* Environment *)

\* A frame from the broker reaches the socket. The client reads the socket
\* only inside GetNextFrameFromBroker and one frame at a time, so a frame that
\* arrives earlier, or behind another one, is the same to it as one that
\* arrives when the read is under way and the socket is empty.
BrokerSend(limit) ==
  /\ pc = "pulling"
  /\ wire = <<>>
  /\ produced < limit
  /\ \E c \in DOMAIN m_open_channels :
       \E f \in BrokerFrames(c, produced + 1) :
         wire' = Append(wire, f)
  /\ produced' = produced + 1
  /\ UNCHANGED <<channel_max, m_next_channel_id, m_open_channels, m_free_channels,
                 m_consumer_channel_map, link, pc, call, sent, result, borrowed,
                 delivered>>

\* The socket breaks.
LinkBreak ==
  /\ link = "up"
  /\ link' = "down"
  /\ UNCHANGED <<channel_max, m_next_channel_id, m_open_channels, m_free_channels,
                 m_consumer_channel_map, wire, produced, pc, call, sent, result,
                 borrowed, delivered>>

----------------------------------------------------------------------------
(* Specification *)

\* ChannelImpl::ChannelImpl: m_next_channel_id(1), channel 0 in the table.
Init ==
  /\ channel_max \in ChannelMaxValues
  /\ m_next_channel_id = 1
  /\ m_open_channels = [c \in {0} |-> <<>>]
  /\ m_free_channels = <<>>
  /\ m_consumer_channel_map = [t \in {} |-> NoChannel]
  /\ wire = <<>>
  /\ produced = 0
  /\ link = "up"
  /\ pc = "idle"
  /\ call = NoCall
  /\ sent = <<>>
  /\ result = Res("ChannelImpl", NoChannel, NoTag, "ok", NoChannel, NoFrame)
  /\ borrowed = [c \in ChannelIds |-> 0]
  /\ delivered = {}

\* The broker advertises a channel maximum of 3.
InitMax3 == Init /\ channel_max = 3

\* Every operation, one consumer tag, a broker that advertises a channel
\* maximum of 3 and sends at most MaxFramesAll frames.
Next ==
  \/ GetChannel
  \/ \E channel \in ChannelIds : ReturnChannel(channel)
  \/ \E tag \in OneTag, channel \in ChannelIds : AddConsumer(tag, channel)
  \/ \E tag \in OneTag : RemoveConsumer(tag)
  \/ \E tag \in OneTag : GetConsumerChannel(tag)
  \/ \E channel \in ChannelIds : \E in \in CallInputs(channel) :
       GetNextFrameOnChannel(channel, in[1], in[2])
  \/ PullFrame
  \/ PullTimeout
  \/ PullError
  \/ CheckFrameForClose
  \/ \E channel \in ChannelIds, reply_type \in ReplyTypes :
       \E reply_id \in ReplyIds(reply_type) : CheckRpcReply(channel, reply_type, reply_id)
  \/ BrokerSend(MaxFramesAll)
  \/ LinkBreak

Spec == InitMax3 /\ [][Next]_vars

\* The allocator and the close handshake that RPC replies trigger; the broker
\* sends no frame outside RPC replies.
NextAlloc ==
  \/ GetChannel
  \/ \E channel \in ChannelIds : ReturnChannel(channel)
  \/ \E channel \in ChannelIds, reply_type \in ReplyTypes :
       \E reply_id \in ReplyIds(reply_type) : CheckRpcReply(channel, reply_type, reply_id)
  \/ LinkBreak

SpecAlloc == Init /\ [][NextAlloc]_vars

\* The consumer registry, used by callers that acquire and release channels.
NextRegistry ==
  \/ GetChannel
  \/ \E channel \in ChannelIds : ReturnChannel(channel)
  \/ \E tag \in ConsumerTags, channel \in ChannelIds : AddConsumer(tag, channel)
  \/ \E tag \in ConsumerTags : RemoveConsumer(tag)
  \/ \E tag \in ConsumerTags : GetConsumerChannel(tag)

SpecRegistry == Init /\ [][NextRegistry]_vars

\* Frame retrieval on channels that callers acquire and keep (the free pool
\* stays empty, GetChannel is CreateNewChannel), with a broker that sends up to
\* MaxFrames frames.
NextFrames ==
  \/ CreateNewChannel
  \/ \E channel \in ChannelIds : \E in \in CallInputs(channel) :
       GetNextFrameOnChannel(channel, in[1], in[2])
  \/ PullFrame
  \/ PullTimeout
  \/ PullError
  \/ CheckFrameForClose
  \/ BrokerSend(MaxFrames)
  \/ LinkBreak

SpecFrames == InitMax3 /\ [][NextFrames]_vars

\* A broker that never stops sending: frames are not told apart (seq 1) and
\* the broker holds back only while MaxFrames frames sit in the queues.
Buffered(table) ==
  LET RECURSIVE Sum(_)
      Sum(S) == IF S = {} THEN 0
                ELSE LET c == CHOOSE x \in S : TRUE
                     IN  Len(table[c]) + Sum(S \ {c})
  IN  Sum(DOMAIN table)

BrokerStream ==
  /\ pc = "pulling"
  /\ wire = <<>>
  /\ Buffered(m_open_channels) < MaxFrames
  /\ \E c \in DOMAIN m_open_channels :
       \E f \in BrokerFrames(c, 1) :
         wire' = Append(wire, f)
  /\ UNCHANGED <<channel_max, m_next_channel_id, m_open_channels, m_free_channels,
                 m_consumer_channel_map, produced, link, pc, call, sent, result,
                 borrowed, delivered>>

NextStream ==
  \/ CreateNewChannel
  \/ \E channel \in ChannelIds : \E in \in CallInputs(channel) :
       GetNextFrameOnChannel(channel, in[1], in[2])
  \/ PullFrame
  \/ PullTimeout
  \/ PullError
  \/ CheckFrameForClose
  \/ BrokerStream
  \/ LinkBreak

\* A blocked read proceeds as soon as a frame is at the socket (or the socket
\* is broken, or the timeout runs out), and the broker keeps sending.
FairSpecFrames ==
  /\ InitMax3
  /\ [][NextStream]_vars
  /\ WF_vars(PullFrame)
  /\ WF_vars(PullTimeout)
  /\ WF_vars(PullError)
  /\ WF_vars(BrokerStream)

----------------------------------------------------------------------------
(* Properties *)

Held == {c \in ChannelIds : borrowed[c] > 0}

UserChannels == DOMAIN m_open_channels \ {0}

\* C1: no channel id is held by two callers at once: GetChannel never
\* returns an id that another caller has acquired and not yet released or
\* seen closed.
C1_NoSharedId == \A c \in ChannelIds : borrowed[c] <= 1

\* C1 witness: a fresh allocation wrapped around to id 1 while another channel
\* is still held.
C1_Witness ==
  /\ result.op = "GetChannel"
  /\ result.kind = "created"
  /\ result.channel = 1
  /\ \E c \in Held : c # 1

\* C2: with a channel maximum M > 0, GetChannel fails with "Too many channels
\* open" only once M channels are open, so M channels can be acquired and the
\* next acquisition is the first to fail; and an id returned as newly
\* allocated is held by nobody else.
C2_LimitIsChannelMax ==
  /\ (result.op = "GetChannel" /\ result.kind = "TooManyChannels" /\ channel_max > 0)
       => Cardinality(UserChannels) >= channel_max
  /\ (result.op = "GetChannel" /\ result.kind = "created")
       => borrowed[result.channel] = 1

\* C7: with a non-empty free pool GetChannel returns the front of the pool,
\* sends nothing and leaves the table and m_next_channel_id as they were.
C7_PoolFirst ==
  [][(/\ m_free_channels # <<>>
      /\ result'.op = "GetChannel"
      /\ <<result, m_free_channels, m_open_channels, m_next_channel_id>>'
           # <<result, m_free_channels, m_open_channels, m_next_channel_id>>)
     => (/\ result'.kind = "reused"
         /\ result'.channel = Head(m_free_channels)
         /\ m_free_channels' = Tail(m_free_channels)
         /\ sent' = <<>>
         /\ UNCHANGED <<m_open_channels, m_next_channel_id>>)]_vars

\* C7 witness: three channels were acquired, one was released, and the next
\* GetChannel handed the released one out again.
C7_Witness ==
  /\ result.op = "GetChannel"
  /\ result.kind = "reused"
  /\ Cardinality(Held) = 3
  /\ m_free_channels = <<>>

\* C8: AddConsumer of an unregistered tag maps it to the channel;
\* GetConsumerChannel returns the mapped channel and changes nothing;
\* RemoveConsumer returns the mapped channel and erases the tag; both throw
\* ConsumerTagNotFoundException, changing nothing, for an unregistered tag.
C8_RegistryRoundTrip ==
  [][(result' # result \/ m_consumer_channel_map' # m_consumer_channel_map)
     => LET tag   == result'.tag
            known == tag \in DOMAIN m_consumer_channel_map
        IN  /\ (result'.op = "AddConsumer" /\ ~known)
                 => /\ DOMAIN m_consumer_channel_map'
                         = DOMAIN m_consumer_channel_map \cup {tag}
                    /\ m_consumer_channel_map'[tag] = result'.arg
                    /\ \A t \in DOMAIN m_consumer_channel_map :
                         m_consumer_channel_map'[t] = m_consumer_channel_map[t]
            /\ result'.op = "GetConsumerChannel"
                 => /\ m_consumer_channel_map' = m_consumer_channel_map
                    /\ IF known
                         THEN /\ result'.kind = "ok"
                              /\ result'.channel = m_consumer_channel_map[tag]
                         ELSE result'.kind = "ConsumerTagNotFound"
            /\ result'.op = "RemoveConsumer"
                 => IF known
                      THEN /\ result'.kind = "ok"
                           /\ result'.channel = m_consumer_channel_map[tag]
                           /\ DOMAIN m_consumer_channel_map'
                                = DOMAIN m_consumer_channel_map \ {tag}
                           /\ \A t \in DOMAIN m_consumer_channel_map' :
                                m_consumer_channel_map'[t] = m_consumer_channel_map[t]
                      ELSE /\ result'.kind = "ConsumerTagNotFound"
                           /\ m_consumer_channel_map' = m_consumer_channel_map]_vars

\* C8 witness: a registered tag was removed, its channel was returned, and
\* the other tag is still registered.
C8_Witness ==
  /\ result.op = "RemoveConsumer"
  /\ result.kind = "ok"
  /\ result.channel \in ChannelIds
  /\ result.tag \notin DOMAIN m_consumer_channel_map
  /\ m_consumer_channel_map # << >>

\* The step in which the call in progress reads the frame at the socket.
ReadsFrame == pc = "pulling" /\ wire # <<>> /\ wire' = Tail(wire)

\* The step in which GetNextFrameOnChannel returns a buffered frame.
ReturnsBuffered ==
  /\ pc = "idle"
  /\ pc' = "idle"
  /\ result'.op = "GetNextFrameOnChannel"
  /\ result'.kind = "frame"
  /\ <<result, delivered>>' # <<result, delivered>>

\* C3: a frame read for another open channel B while the call waits on A is
\* appended to B's queue, and GetNextFrameOnChannel(B) returns the buffered
\* frames in arrival order, each once: it returns the head of B's queue and
\* removes it.
C3_BufferedFifo ==
  [][/\ ReadsFrame
          => LET f == Head(wire)
             IN  (f.channel \notin {0, call.channel} /\ IsChannelOpen(f.channel))
                   => /\ f.channel \in DOMAIN m_open_channels'
                      /\ m_open_channels'[f.channel]
                           = Append(m_open_channels[f.channel], f)
     /\ ReturnsBuffered
          => LET b == result'.arg
             IN  /\ result'.frame = Head(m_open_channels[b])
                 /\ result'.frame.channel = b
                 /\ m_open_channels'[b] = Tail(m_open_channels[b])
                 /\ result'.frame.seq \notin delivered]_vars

\* C4: a frame that GetNextFrameOnChannel(A) returns as data is a frame of
\* channel A, whatever the caller's frame variable held before the call.
C4_ReturnedFrameIsOnChannel ==
  (result.op = "GetNextFrameOnChannel" /\ result.kind = "frame")
    => result.frame.channel = result.arg

\* C5: GetNextFrameOnChannel(C) never returns a channel.close method of
\* channel C as data; when it ends with the closed-by-peer error, C has no
\* table entry and channel.close-ok was sent on C.
C5_CloseNeverData ==
  /\ (result.op = "GetNextFrameOnChannel" /\ result.kind = "frame")
       => ~(IsChannelClose(result.frame) /\ result.frame.channel = result.arg)
  /\ (result.op = "GetNextFrameOnChannel" /\ result.kind = "ChannelClosedByPeer")
       => /\ ~IsChannelOpen(result.arg)
          /\ sent = <<Method(result.arg, "channel.close-ok")>>

\* C6: a call with timeout 0 on an open channel with an empty queue, with no
\* frame at the socket, can return, and returns false ("no frame"): nothing is
\* thrown, nothing is sent, and the table, its queues, the free pool and the
\* registry are as before.
C6_ZeroTimeoutNoFrame ==
  /\ [](( /\ pc = "pulling" /\ call.timeout = "zero"
          /\ wire = <<>> /\ link = "up")
        => /\ IsChannelOpen(call.channel)
           /\ m_open_channels[call.channel] = <<>>
           /\ ENABLED PullTimeout)
  /\ [][( /\ pc = "pulling" /\ call.timeout = "zero"
          /\ wire = <<>> /\ link = "up"
          /\ pc' = "idle")
        => /\ result'.op = "GetNextFrameOnChannel"
           /\ result'.arg = call.channel
           /\ result'.kind = "noframe"
           /\ result'.frame = NoFrame
           /\ UNCHANGED <<m_open_channels, m_free_channels, m_consumer_channel_map,
                          m_next_channel_id, sent, wire, borrowed>>]_vars

\* C6 witness: a call with timeout 0 has returned "no frame" on a channel
\* that is open, while another channel holds a buffered frame.
C6_Witness ==
  /\ result.op = "GetNextFrameOnChannel"
  /\ result.kind = "noframe"
  /\ result.timeout = "zero"
  /\ IsChannelOpen(result.arg)
  /\ m_open_channels[result.arg] = <<>>
  /\ wire = <<>>
  /\ \E c \in UserChannels : m_open_channels[c] # <<>>

\* C9: if frames for the channel of a caller that waits forever keep reaching
\* the socket, calls keep terminating: no call stays blocked for ever.
C9_WaitForeverTerminates ==
  []<>(/\ pc = "pulling" /\ call.timeout = "forever"
       /\ wire # <<>> /\ Head(wire).channel = call.channel)
    => []<>(pc = "idle")

\* Channel 0 has a table entry and is never handed out; every channel handed
\* out, held or pooled has a table entry.
C10_Entries ==
  /\ 0 \in DOMAIN m_open_channels
  /\ (result.op = "GetChannel" /\ result.kind \in {"created", "reused"})
       => (result.channel # 0 /\ IsChannelOpen(result.channel))
  /\ \A c \in Held : c # 0 /\ IsChannelOpen(c)
  /\ \A i \in 1..Len(m_free_channels) :
       m_free_channels[i] # 0 /\ IsChannelOpen(m_free_channels[i])

\* C10: channel 0 always has a table entry and is never returned by
\* GetChannel; every id GetChannel returned has a table entry while it is held
\* or pooled; and an entry disappears only in an operation that ran
\* FinishCloseChannel on that very channel, which is never channel 0.
C10_Lifecycle ==
  /\ []C10_Entries
  /\ [][\A c \in DOMAIN m_open_channels \ DOMAIN m_open_channels' :
          c # 0 /\ result'.closed = c /\ result' # result]_vars

\* C10 witness: a channel that GetChannel handed out has lost its entry to a
\* close handshake triggered by a buffered channel.close, while another held
\* channel and a registered consumer are still there.
C10_Witness ==
  /\ result.op = "GetNextFrameOnChannel"
  /\ result.kind = "ChannelClosedByPeer"
  /\ result.closed = result.arg
  /\ ~IsChannelOpen(result.arg)
  /\ Held # {}
  /\ m_consumer_channel_map # << >>

\* C11: a frame that GetNextFrameOnChannel(C) has just returned from C's
\* queue is no longer in the queue the table stores for C, so that the next
\* call returns the frame behind it and no frame is returned twice.
C11_ReturnedFrameLeavesQueue ==
  (/\ result.op = "GetNextFrameOnChannel"
   /\ result.kind = "frame"
   /\ result.timeout = "none"
   /\ IsChannelOpen(result.arg))
    => \A i \in 1..Len(m_open_channels[result.arg]) :
         m_open_channels[result.arg][i] # result.frame

\* C12: when the call in progress on a channel other than 0 reads a channel-0
\* frame from a working socket, then connection.close ends the call with the
\* connection-closed-by-peer error after connection.close-ok was sent on
\* channel 0, and any other channel-0 frame is neither returned nor queued;
\* the table, the free pool and the registry stay as they were.
C12_ChannelZeroFrames ==
  [][(ReadsFrame /\ Head(wire).channel = 0 /\ call.channel # 0 /\ link = "up")
       => /\ UNCHANGED <<m_open_channels, m_free_channels, m_consumer_channel_map>>
          /\ IF IsConnectionClose(Head(wire))
               THEN /\ pc' = "idle"
                    /\ result'.kind = "ConnectionClosedByPeer"
                    /\ sent' = Append(sent, Method(0, "connection.close-ok"))
               ELSE /\ sent' = sent
                    /\ \/ pc' = "pulling" /\ result' = result
                       \/ pc' = "idle" /\ result'.kind = "noframe"]_vars

\* C13: FinishCloseChannel erases the table entry only after channel.close-ok
\* has been sent: an operation that ran it and ended with a transport error
\* left the entry in place, any other left the channel without an entry and
\* sent channel.close-ok on it.
C13_CloseOkBeforeErase ==
  (result.closed # NoChannel)
    => IF result.kind = "TransportError"
         THEN IsChannelOpen(result.closed)
         ELSE /\ ~IsChannelOpen(result.closed)
              /\ \E i \in 1..Len(sent) :
                   sent[i] = Method(result.closed, "channel.close-ok")

\* The table after channel's entry has been erased and nothing else.
ErasedOnly(channel) ==
  /\ DOMAIN m_open_channels' = DOMAIN m_open_channels \ {channel}
  /\ \A c \in DOMAIN m_open_channels' : m_open_channels'[c] = m_open_channels[c]

IsPrefix(q, r) == Len(q) <= Len(r) /\ SubSeq(r, 1, Len(q)) = q

\* C15: the step that ends a call with a finite timeout with "no frame" takes
\* no frame out of any queue, and a frame for another open channel read in
\* that step, before the deadline was found to have passed, is appended to
\* that channel's queue.
C15_TimedOutKeepsFrames ==
  [][(/\ pc = "pulling"
      /\ call.timeout = "finite"
      /\ pc' = "idle"
      /\ result'.kind = "noframe")
       => /\ \A c \in DOMAIN m_open_channels :
               /\ c \in DOMAIN m_open_channels'
               /\ IsPrefix(m_open_channels[c], m_open_channels'[c])
          /\ ReadsFrame
               => LET f == Head(wire)
                  IN  (f.channel \notin {0, call.channel} /\ IsChannelOpen(f.channel))
                        => m_open_channels'[f.channel]
                             = Append(m_open_channels[f.channel], f)]_vars

\* C16: GetNextFrameOnChannel on a channel id without a table entry throws
\* "Channel not found" without reading the socket, and leaves the table with
\* its queues, the free pool and the registry as they were.
C16_ChannelNotFound ==
  [][(/\ pc = "idle"
      /\ result' # result
      /\ result'.op = "GetNextFrameOnChannel"
      /\ ~IsChannelOpen(result'.arg))
       => /\ result'.kind = "ChannelNotFound"
          /\ pc' = "idle"
          /\ sent' = <<>>
          /\ UNCHANGED <<m_open_channels, m_free_channels, m_consumer_channel_map,
                         m_next_channel_id, wire>>]_vars

\* C16 witness: the call failed on a channel that a close handshake had
\* removed, while another channel holds a buffered frame.
C16_Witness ==
  /\ result.op = "GetNextFrameOnChannel"
  /\ result.kind = "ChannelNotFound"
  /\ result.timeout = "none"
  /\ result.arg \notin DOMAIN m_open_channels
  /\ result.arg >= 2
  /\ result.arg <= m_next_channel_id
  /\ \E c \in UserChannels : m_open_channels[c] # <<>>

\* How far above last_id the id x lies, counting upward with wrap-around.
StepsAbove(last_id, x) ==
  (x + (MaxChannelId + 1) - last_id - 1) % (MaxChannelId + 1)

\* The step in which GetChannel allocates a fresh id.
Allocates ==
  /\ pc = "idle"
  /\ m_free_channels = <<>>
  /\ result'.op = "GetChannel"
  /\ result'.kind = "created"
  /\ m_open_channels' # m_open_channels

\* C17: a fresh allocation that passes the count check finds a free id; it
\* reserves the first id above the last assigned one, with wrap-around, that
\* has no table entry; that id is not 0 and starts with an empty queue; and
\* the first id acquired on a fresh connection is 1 (the following ones are
\* then 2 and 3 by the scan rule).
C17_FreshAllocation ==
  /\ [](~TooManyChannels(channel_max, Cardinality(DOMAIN m_open_channels))
          => ChannelIds \ DOMAIN m_open_channels # {})
  /\ [][Allocates
          => LET id == result'.channel
             IN  /\ id \in ChannelIds \ DOMAIN m_open_channels
                 /\ \A x \in ChannelIds \ DOMAIN m_open_channels :
                      StepsAbove(m_next_channel_id, id)
                        <= StepsAbove(m_next_channel_id, x)
                 /\ id # 0
                 /\ id \in DOMAIN m_open_channels'
                 /\ m_open_channels'[id] = <<>>
                 /\ m_next_channel_id' = id
                 /\ result.op = "ChannelImpl" => id = 1]_vars

\* C18: every id in the free pool has a table entry, is not 0, is held by
\* nobody and is in the pool once; and no step removes the table entry of an
\* id that is in the pool.
C18_FreePool ==
  /\ [](\A i \in 1..Len(m_free_channels) :
          LET c == m_free_channels[i]
          IN  /\ c # 0
              /\ IsChannelOpen(c)
              /\ borrowed[c] = 0
              /\ \A j \in 1..Len(m_free_channels) : m_free_channels[j] = c => j = i)
  /\ [][\A c \in DOMAIN m_open_channels \ DOMAIN m_open_channels' :
          \A i \in 1..Len(m_free_channels) : m_free_channels[i] # c]_vars

\* C18 witness: a close handshake has removed the entry of a held channel
\* while another channel sits in the pool.
C18_Witness ==
  /\ Len(m_free_channels) = 1
  /\ result.closed # NoChannel
  /\ ~IsChannelOpen(result.closed)
  /\ result.closed # m_free_channels[1]

\* C19: a GetChannel that fails in the channel.open or confirm.select
\* handshake returns no id, leaves the free pool as it was, and leaves no
\* entry behind: the table has the same ids as before the call.
C19_FailedAcquireLeavesNothing ==
  [][(/\ pc = "idle"
      /\ result' # result
      /\ result'.op = "GetChannel"
      /\ result'.kind \in {"ChannelClosedByPeer", "ConnectionClosedByPeer",
                           "TransportError"})
       => /\ result'.channel = NoChannel
          /\ UNCHANGED <<m_free_channels, borrowed>>
          /\ DOMAIN m_open_channels' = DOMAIN m_open_channels]_vars

\* C20: with a channel maximum M > 0 every id GetChannel returns, fresh or
\* from the pool, lies in 1..M.
C20_IdWithinChannelMax ==
  (/\ channel_max > 0
   /\ result.op = "GetChannel"
   /\ result.kind \in {"created", "reused"})
    => result.channel \in 1..channel_max

====
